---- MODULE Spec2Model ----
(***************************************************************************)
(* Matheye: a training pipeline for a handwritten math symbol classifier   *)
(* (Model_Training/train_model.py) and the inference service that serves   *)
(* its artifacts (web_app/app.py).                                         *)
(*                                                                         *)
(* The specifications of this module:                                      *)
(*   SpecTrain   one run of train_model.py's main() over a label table,    *)
(*               model.fit taken as one step                               *)
(*   SpecFit     the same run over the shorter tables, model.fit taken     *)
(*               epoch by epoch                                            *)
(*   SpecLoader  the row loop of load_hasy_dataset over a long table       *)
(*   Spec        the web service: module start-up, then requests           *)
(*                                                                         *)
(* Real numbers are fixed point, in hundredths: 0.85 is 85, 90.0 is 9000.  *)
(***************************************************************************)
EXTENDS Integers, Sequences, FiniteSets, TLC

VARIABLES
    \* ---- train_model.py: main()
    tpc,              \* position in main()
    csv,              \* labels_csv: the rows of hasy-data-labels.csv
    images,           \* loaded images, each named by the row it came from
    raw_labels,       \* loaded symbol ids, parallel to images
    label_map,        \* the content written to models/labels.json
    remapped,         \* new_labels of remap_labels
    forward,          \* forward of remap_labels
    reverse_mapping,  \* reverse of remap_labels
    num_classes,      \* train_model's num_classes (-1 before training)
    saved_reverse,    \* the content written to models/reverse_mapping.json
    trainer,          \* how far train_model has come ("none" before it)
    epoch,            \* epochs model.fit has run
    wait,             \* EarlyStopping's wait
    fit_done,         \* model.fit has returned
    files,            \* the files of models/ written by this run
    idx,              \* rows load_hasy_dataset's loop has gone through
    last_exists,      \* whether the image of the last of them was on disk
    progress,         \* the counts the loop has printed as progress
    \* ---- app.py: the service
    pc,               \* "load_model", "load_labels", "serving"
    model,            \* the global model
    labels,           \* the global labels
    startup_log,      \* the load errors printed at start-up
    request,          \* the request served last
    response,         \* the response to it
    invoked,          \* whether model.predict ran in that request
    raised            \* where that request raised an exception ("none" if nowhere)

train_vars == <<tpc, csv, images, raw_labels, label_map, remapped, forward,
                reverse_mapping, num_classes, saved_reverse>>
app_vars == <<pc, model, labels, startup_log, request, response, invoked,
              raised>>
run_vars == <<trainer, epoch, wait, fit_done, files, idx, last_exists,
              progress>>
vars == <<train_vars, run_vars, app_vars>>

(***************************************************************************)
(* Bounds of the model                                                     *)
(***************************************************************************)
MaxRows == 3        \* rows of the label table
MaxSymbolId == 2    \* symbol ids are 0..MaxSymbolId
MaxFitRows == 2     \* rows of the label table where fit runs epoch by epoch
MaxTableRows == 10001   \* rows of the label table in the row loop

(***************************************************************************)
(* Helpers                                                                 *)
(***************************************************************************)
Digit == <<"0", "1", "2", "3", "4", "5", "6", "7", "8", "9">>

\* Python's str() of a non-negative int
RECURSIVE Str(_)
Str(n) == IF n < 10 THEN Digit[n + 1]
          ELSE Str(n \div 10) \o Digit[(n % 10) + 1]

SetMin(S) == CHOOSE m \in S : \A y \in S : m <= y

Range(s) == {s[i] : i \in 1..Len(s)}

EmptyMap == [k \in {} |-> 0]

(***************************************************************************)
(* The label table                                                         *)
(***************************************************************************)
SymbolIds == 0..MaxSymbolId

LatexNames == <<"\\alpha", "\\mathcal{A}", "7", "\\nabla">>

\* The latex column of a symbol of the dataset
LatexOf(s) == LatexNames[(s % Len(LatexNames)) + 1]

\* A row of hasy-data-labels.csv. exists: whether the image file of the row's
\* path is on disk. variant 1 has a blank unicode cell ("" or pandas' "nan"),
\* variant 2 an explicit one and another spelling of the latex.
Row(s, e, v) ==
    [symbol_id |-> s, exists |-> e,
     latex |-> IF v = 1 THEN LatexOf(s) ELSE "\\sym" \o Str(s),
     unicode |-> IF v = 1 THEN (IF s % 2 = 0 THEN "" ELSE "nan")
                 ELSE "u" \o Str(s)]

Rows == {Row(s, e, v) : s \in SymbolIds, e \in BOOLEAN, v \in 1..2}

Tables == UNION {[1..n -> Rows] : n \in 0..MaxRows}

(***************************************************************************)
(* train_model.py                                                          *)
(***************************************************************************)
\* load_hasy_dataset: the rows whose image exists, in table order
RECURSIVE LoadedRows(_, _)
LoadedRows(table, i) ==
    IF i > Len(table) THEN <<>>
    ELSE IF ~table[i].exists THEN LoadedRows(table, i + 1)
    ELSE <<i>> \o LoadedRows(table, i + 1)

load_hasy_dataset_images(table) == LoadedRows(table, 1)

load_hasy_dataset_labels_all(table) ==
    [k \in 1..Len(table) |-> table[k].symbol_id]

load_hasy_dataset_labels(table) ==
    LET kept == LoadedRows(table, 1)
    IN [k \in 1..Len(kept) |-> table[kept[k]].symbol_id]

\* np.unique: the distinct values, ascending
RECURSIVE SortedSeq(_)
SortedSeq(S) == IF S = {} THEN <<>>
                ELSE LET m == SetMin(S) IN <<m>> \o SortedSeq(S \ {m})

np_unique_dup(ls) == ls

np_unique(ls) == SortedSeq(Range(ls))

\* {int(old): int(new) for new, old in enumerate(unique)}: a later pair
\* overwrites an earlier one with the same key
forward_of(unique) ==
    [old \in Range(unique) |->
        (CHOOSE i \in 1..Len(unique) :
            /\ unique[i] = old
            /\ \A j \in 1..Len(unique) : unique[j] = old => j <= i) - 1]

\* {int(new): int(old) for new, old in enumerate(unique)}
reverse_of(unique) == [new \in 0..(Len(unique) - 1) |-> unique[new + 1]]

remap_new_labels(ls, fwd) == [k \in 1..Len(ls) |-> fwd[ls[k]]]

\* latex_to_unicode, the entries the dataset's latex column can hit
latex_to_unicode ==
    [l \in {"\\alpha", "\\nabla", "7"} |->
        CASE l = "\\alpha" -> "U+03B1"
          [] l = "\\nabla" -> "U+2207"
          [] OTHER -> "7"]

MetadataOfRow(row) ==
    [latex |-> row.latex,
     unicode |-> IF row.unicode = "" \/ row.unicode = "nan"
                 THEN (IF row.latex \in DOMAIN latex_to_unicode
                       THEN latex_to_unicode[row.latex] ELSE "")
                 ELSE row.unicode]

\* sid = str(int(row["symbol_id"])): the key a row is filed under
label_key(table, row) == Str(row.symbol_id)

\* create_label_mapping: every row of the table, the first row of a key wins
RECURSIVE BuildLabelMap(_, _, _)
BuildLabelMap(table, i, acc) ==
    IF i > Len(table) THEN acc
    ELSE LET sid == label_key(table, table[i])
         IN IF sid \in DOMAIN acc
            THEN BuildLabelMap(table, i + 1, acc)
            ELSE BuildLabelMap(table, i + 1,
                    [k \in DOMAIN acc \cup {sid} |->
                        IF k = sid THEN MetadataOfRow(table[i]) ELSE acc[k]])

create_label_mapping(table) == BuildLabelMap(table, 1, EmptyMap)

\* how often v occurs in ls
RECURSIVE CountOf(_, _)
CountOf(ls, v) == IF ls = <<>> THEN 0
                  ELSE (IF Head(ls) = v THEN 1 ELSE 0) + CountOf(Tail(ls), v)

\* train_test_split(test_size=0.2, stratify=labels) raises unless every class
\* has two members and both parts can hold one sample of each class
SplitIsValid(ls) ==
    LET n == Len(ls)
        k == Cardinality(Range(ls))
        n_test == (n + 4) \div 5
    IN /\ n >= 2
       /\ \A c \in Range(ls) : CountOf(ls, c) >= 2
       /\ n_test >= k
       /\ n - n_test >= k

(***************************************************************************)
(* train_model.py: constants                                               *)
(***************************************************************************)
EPOCHS == 50              \* CONFIG["epochs"]
PATIENCE == 10            \* EarlyStopping(patience=10)
PROGRESS_EVERY == 10000   \* (idx + 1) % 10000 == 0

\* what the loop body prints for the row of index i: a row whose image is
\* missing leaves the body at `continue`, before the print
progress_report(i, exists) ==
    IF exists /\ (i + 1) % PROGRESS_EVERY = 0 THEN <<i + 1>> ELSE <<>>

RECURSIVE LoaderProgress(_, _)
LoaderProgress(table, i) ==
    IF i > Len(table) THEN <<>>
    ELSE progress_report(i - 1, table[i].exists) \o LoaderProgress(table, i + 1)

LoadDataset ==
    /\ tpc = "load"
    /\ images' = load_hasy_dataset_images(csv)
    /\ raw_labels' = load_hasy_dataset_labels(csv)
    /\ idx' = Len(csv)
    /\ last_exists' = IF csv = <<>> THEN FALSE ELSE csv[Len(csv)].exists
    /\ progress' = LoaderProgress(csv, 1)
    /\ tpc' = "labels"
    /\ UNCHANGED <<csv, label_map, remapped, forward, reverse_mapping,
                   num_classes, saved_reverse, trainer, epoch, wait, fit_done,
                   files, app_vars>>

CreateLabelMapping ==
    /\ tpc = "labels"
    /\ label_map' = create_label_mapping(csv)
    /\ files' = files \cup {"labels.json"}
    /\ tpc' = "remap"
    /\ UNCHANGED <<csv, images, raw_labels, remapped, forward, reverse_mapping,
                   num_classes, saved_reverse, trainer, epoch, wait, fit_done,
                   idx, last_exists, progress, app_vars>>

RemapLabels ==
    /\ tpc = "remap"
    /\ LET unique == np_unique(raw_labels)
       IN /\ forward' = forward_of(unique)
          /\ reverse_mapping' = reverse_of(unique)
          /\ remapped' = remap_new_labels(raw_labels, forward_of(unique))
    /\ tpc' = "train"
    /\ UNCHANGED <<csv, images, raw_labels, label_map, num_classes,
                   saved_reverse, run_vars, app_vars>>

\* train_model, lines 211-219: num_classes, one-hot labels, the split; the
\* run ends here when train_test_split raises
TrainSplit ==
    /\ tpc = "train"
    /\ trainer = "none"
    /\ num_classes' = Cardinality(Range(remapped))
    /\ IF SplitIsValid(remapped)
       THEN trainer' = "split" /\ tpc' = tpc
       ELSE trainer' = trainer /\ tpc' = "aborted"
    /\ UNCHANGED <<csv, images, raw_labels, label_map, remapped, forward,
                   reverse_mapping, saved_reverse, epoch, wait, fit_done,
                   files, idx, last_exists, progress, app_vars>>

\* lines 224-235: build_model, model.compile
TrainCompile ==
    /\ tpc = "train"
    /\ trainer = "split"
    /\ trainer' = "compiled"
    /\ UNCHANGED <<train_vars, epoch, wait, fit_done, files, idx, last_exists,
                   progress, app_vars>>

\* line 262: model.fit is entered
FitBegin ==
    /\ tpc = "train"
    /\ trainer = "compiled"
    /\ trainer' = "fitting"
    /\ epoch' = 0
    /\ wait' = 0
    /\ fit_done' = FALSE
    /\ UNCHANGED <<train_vars, files, idx, last_exists, progress, app_vars>>

early_stop_late(w) == w > PATIENCE

\* EarlyStopping.on_epoch_end: self.wait >= self.patience
early_stop(w) == w >= PATIENCE

\* One epoch of model.fit with the callbacks of lines 237-257, on the state
\* [epoch, wait, done]. loss_improved: val_loss is below the best seen.
\* EarlyStopping counts the epoch, forgets the count on an improvement and
\* stops at patience; fit also ends with the epoch budget. ReduceLROnPlateau
\* changes only the learning rate, which is no part of this state.
fit_epoch(st, loss_improved) ==
    LET e == st.epoch + 1
        w == IF loss_improved THEN 0 ELSE st.wait + 1
    IN [epoch |-> e, wait |-> w, done |-> (early_stop(w) \/ e >= EPOCHS)]

\* the first epoch's val_loss is below the initial best, infinity, and its
\* val_accuracy above the initial best, minus infinity
Improvements(e) == IF e = 0 THEN {TRUE} ELSE BOOLEAN

FitStart == [epoch |-> 0, wait |-> 0, done |-> FALSE]

FitSuccessors(st) ==
    IF st.done THEN {}
    ELSE {fit_epoch(st, li) : li \in Improvements(st.epoch)}

RECURSIVE FitReach(_)
FitReach(S) ==
    LET N == S \cup UNION {FitSuccessors(st) : st \in S}
    IN IF N = S THEN S ELSE FitReach(N)

\* the states model.fit can return in
FitFinals == {st \in FitReach({FitStart}) : st.done}

checkpoint_path_final == "math_ocr_model.keras"

\* ModelCheckpoint(os.path.join(models_dir, "best_model.keras"), ...)
checkpoint_path == "best_model.keras"

\* ModelCheckpoint(monitor="val_accuracy", save_best_only=True)
checkpoint_files(acc_improved) ==
    IF acc_improved THEN {checkpoint_path} ELSE {}

\* one epoch of model.fit
FitEpoch ==
    /\ tpc = "train"
    /\ trainer = "fitting"
    /\ ~fit_done
    /\ \E li \in Improvements(epoch), ai \in Improvements(epoch) :
        LET st == fit_epoch([epoch |-> epoch, wait |-> wait, done |-> fit_done],
                            li)
        IN /\ epoch' = st.epoch
           /\ wait' = st.wait
           /\ fit_done' = st.done
           /\ files' = files \cup checkpoint_files(ai)
    /\ UNCHANGED <<train_vars, trainer, idx, last_exists, progress, app_vars>>

\* lines 262-269: the whole of model.fit
FitAll ==
    /\ tpc = "train"
    /\ trainer = "fitting"
    /\ ~fit_done
    /\ \E st \in FitFinals :
        /\ epoch' = st.epoch
        /\ wait' = st.wait
        /\ fit_done' = st.done
    /\ files' = files \cup checkpoint_files(TRUE)
    /\ UNCHANGED <<train_vars, trainer, idx, last_exists, progress, app_vars>>

\* lines 272-275: model.evaluate, return model
TrainEvaluate ==
    /\ tpc = "train"
    /\ trainer = "fitting"
    /\ fit_done
    /\ trainer' = "evaluated"
    /\ tpc' = "save"
    /\ UNCHANGED <<csv, images, raw_labels, label_map, remapped, forward,
                   reverse_mapping, num_classes, saved_reverse, epoch, wait,
                   fit_done, files, idx, last_exists, progress, app_vars>>

\* the files save_all writes
SaveAllFiles == {"math_ocr_model.keras", "math_ocr_model.h5",
                 "reverse_mapping.json", "math_ocr_model.tflite"}

SaveAll ==
    /\ tpc = "save"
    /\ saved_reverse' = [k \in {Str(p) : p \in DOMAIN reverse_mapping} |->
                            reverse_mapping[CHOOSE p \in DOMAIN reverse_mapping :
                                                Str(p) = k]]
    /\ files' = files \cup SaveAllFiles
    /\ tpc' = "done"
    /\ UNCHANGED <<csv, images, raw_labels, label_map, remapped, forward,
                   reverse_mapping, num_classes, trainer, epoch, wait,
                   fit_done, idx, last_exists, progress, app_vars>>

AppIdle ==
    /\ pc = "off"
    /\ model = [none |-> TRUE]
    /\ labels = EmptyMap
    /\ startup_log = {}
    /\ request = [route |-> "none"]
    /\ response = [code |-> 0]
    /\ invoked = FALSE
    /\ raised = "none"

\* main() is entered: nothing loaded, nothing written
MainEntered ==
    /\ tpc = "load"
    /\ images = <<>>
    /\ raw_labels = <<>>
    /\ label_map = EmptyMap
    /\ remapped = <<>>
    /\ forward = EmptyMap
    /\ reverse_mapping = EmptyMap
    /\ num_classes = -1
    /\ saved_reverse = EmptyMap
    /\ trainer = "none"
    /\ epoch = 0
    /\ wait = 0
    /\ fit_done = FALSE
    /\ files = {}
    /\ idx = 0
    /\ last_exists = FALSE
    /\ progress = <<>>
    /\ AppIdle

InitTrain ==
    /\ csv \in Tables
    /\ MainEntered

NextTrain ==
    \/ LoadDataset
    \/ CreateLabelMapping
    \/ RemapLabels
    \/ TrainSplit
    \/ TrainCompile
    \/ FitBegin
    \/ FitAll
    \/ TrainEvaluate
    \/ SaveAll

SpecTrain == InitTrain /\ [][NextTrain]_vars

FitTables == {t \in Tables : Len(t) <= MaxFitRows}

InitFit ==
    /\ csv \in FitTables
    /\ MainEntered

NextFit ==
    \/ LoadDataset
    \/ CreateLabelMapping
    \/ RemapLabels
    \/ TrainSplit
    \/ TrainCompile
    \/ FitBegin
    \/ FitEpoch
    \/ TrainEvaluate
    \/ SaveAll

\* the script runs on until it ends or raises
SpecFit == InitFit /\ [][NextFit]_vars /\ WF_vars(NextFit)

\* One turn of the row loop of load_hasy_dataset, lines 41-54, over a table
\* whose rows are met one at a time. Of a row only whether its image exists
\* is kept, and of the loop only its position and what it has printed; the
\* images and labels it collects are those of LoadDataset.
LoaderRow ==
    /\ tpc = "load"
    /\ idx < MaxTableRows
    /\ \E exists \in BOOLEAN :
        /\ last_exists' = exists
        /\ progress' = progress \o progress_report(idx, exists)
    /\ idx' = idx + 1
    /\ UNCHANGED <<train_vars, trainer, epoch, wait, fit_done, files, app_vars>>

InitLoader ==
    /\ csv = <<>>
    /\ MainEntered

NextLoader == LoaderRow

SpecLoader == InitLoader /\ [][NextLoader]_vars

(***************************************************************************)
(* C1: after remap_labels, forward and reverse are exact inverses          *)
(* (reverse[forward[s]] = s for every loaded identifier s and              *)
(* forward[reverse[p]] = p for every position p), and the domain and the   *)
(* range of each have as many elements as the input has distinct           *)
(* identifiers.                                                            *)
(***************************************************************************)
Remapped == tpc \in {"train", "save", "aborted", "done"}

MapRange(f) == {f[k] : k \in DOMAIN f}

C1_RemapInverse ==
    Remapped =>
        LET K == Cardinality(Range(raw_labels))
        IN /\ \A s \in Range(raw_labels) :
                s \in DOMAIN forward /\ forward[s] \in DOMAIN reverse_mapping
                /\ reverse_mapping[forward[s]] = s
           /\ \A p \in DOMAIN reverse_mapping :
                reverse_mapping[p] \in DOMAIN forward
                /\ forward[reverse_mapping[p]] = p
           /\ Cardinality(DOMAIN forward) = K
           /\ Cardinality(MapRange(forward)) = K
           /\ Cardinality(DOMAIN reverse_mapping) = K
           /\ Cardinality(MapRange(reverse_mapping)) = K

\* a remapped dataset with a repeated identifier and two distinct ones
C1_Witness ==
    /\ Remapped
    /\ Len(raw_labels) > Cardinality(Range(raw_labels))
    /\ Cardinality(Range(raw_labels)) >= 2
    /\ reverse_mapping[0] # 0

(***************************************************************************)
(* C9: labels.json, as the training run writes it, is keyed by remapped    *)
(* label: after a completed run, for every class index p in 0..K-1 the     *)
(* entry under str(p) exists and holds the latex/unicode of a row of the   *)
(* original symbol reverse[p].                                             *)
(***************************************************************************)
C9_KeyedByRemappedLabel ==
    tpc = "done" =>
        \A p \in 0..(num_classes - 1) :
            /\ Str(p) \in DOMAIN label_map
            /\ \E i \in 1..Len(csv) :
                /\ csv[i].symbol_id = reverse_mapping[p]
                /\ label_map[Str(p)] = MetadataOfRow(csv[i])

(***************************************************************************)
(* app.py: constants                                                       *)
(***************************************************************************)
CONFIDENCE_THRESHOLD == 85
MIN_FOREGROUND_FRACTION == 2
MAX_FOREGROUND_FRACTION == 60
MIN_STD_DEV == 5
DARK_LEVEL == 85       \* flat < 0.85
IMAGE_SIDE == 32       \* img.resize((32, 32))
GREY_MAX == 255        \* np.array(img) / 255.0

NumPixels == IMAGE_SIDE * IMAGE_SIDE

(***************************************************************************)
(* Bounds of the service's inputs                                          *)
(***************************************************************************)
NumClasses == 2     \* the size of the model's output vector

\* the top probabilities a model may give, in hundredths
TopLevels == <<50, 84, 85, 100>>

\* how many pixels of an upload have the darker of its two grey levels
DarkCounts == {0, 20, 21, 614, 615, NumPixels}
DarkLevels == {0, 216}
BackgroundLevels == {217, 255}

(***************************************************************************)
(* Uploads and requests                                                    *)
(***************************************************************************)
\* An upload after Image.open(...).convert('L').resize((32, 32)): nd pixels of
\* grey level dark, the others of grey level bg. An upload PIL cannot decode
\* has decodable = FALSE.
Image(nd, dark, bg) == [decodable |-> TRUE, nd |-> nd, dark |-> dark, bg |-> bg]

Undecodable == [decodable |-> FALSE, nd |-> 0, dark |-> 0, bg |-> 0]

Images == {Image(nd, d, b) : nd \in DarkCounts, d \in DarkLevels,
                             b \in BackgroundLevels}

NoImage == [decodable |-> FALSE, nd |-> -1, dark |-> 0, bg |-> 0]

PredictRequest(img) == [route |-> "/predict", has_image |-> TRUE, image |-> img]

PredictRequests ==
    {PredictRequest(img) : img \in Images \cup {Undecodable}}
    \cup {[route |-> "/predict", has_image |-> FALSE, image |-> NoImage]}

OtherRequests ==
    {[route |-> r, has_image |-> FALSE, image |-> NoImage] :
        r \in {"/", "/health", "/info"}}

Requests == PredictRequests \cup OtherRequests

NoRequest == [route |-> "none"]
NoResponse == [code |-> 0]

(***************************************************************************)
(* The artifacts the service loads                                         *)
(***************************************************************************)
None == [none |-> TRUE]

\* The j-th output vector: TopLevels[..] at one class, the rest of the
\* probability at the next class. Classes are 0..NumClasses-1.
PredVec(j) ==
    LET a == j % NumClasses
        c == TopLevels[((j \div NumClasses) % Len(TopLevels)) + 1]
    IN [i \in 0..(NumClasses - 1) |->
            IF i = a THEN c
            ELSE IF i = (a + 1) % NumClasses THEN 100 - c
            ELSE 0]

NumVecs == NumClasses * Len(TopLevels)

\* A loaded model is a fixed function from the input tensor to an output
\* vector; shift names the function. raises: model.predict raises on every
\* input (an artifact whose input shape is not (32, 32, 1)).
Artifacts ==
    {[shift |-> w, raises |-> FALSE] : w \in 0..(NumVecs - 1)}
    \cup {[shift |-> 0, raises |-> TRUE]}

model_predict(m, img) == PredVec((img.nd + img.dark + img.bg + m.shift) % NumVecs)

\* An entry of labels.json. A JSON object is a record of its members; a value
\* that is no object is the record [json_scalar |-> ...].
EntryOf(kind, i) ==
    CASE kind = 1 -> [latex |-> LatexOf(i), unicode |-> "u" \o Str(i)]
      [] kind = 2 -> [latex |-> LatexOf(i)]
      [] kind = 3 -> [latex |-> "", unicode |-> ""]
      [] OTHER -> [json_scalar |-> "x"]

EntryKinds == 1..4

ClassKeys == {Str(i) : i \in 0..(NumClasses - 1)}

KeyIndex(k) == CHOOSE i \in 0..(NumClasses - 1) : Str(i) = k

LabelTables ==
    UNION {{[k \in D |-> EntryOf(kinds[k], KeyIndex(k))] :
                kinds \in [D -> EntryKinds]} : D \in SUBSET ClassKeys}

(***************************************************************************)
(* app.py: predict                                                         *)
(***************************************************************************)
\* a/c < d/b for a, d >= 0 and b, c > 0, without forming the products
RECURSIVE FracLess(_, _, _, _)
FracLess(a, c, d, b) ==
    LET q1 == a \div c
        q2 == d \div b
        r1 == a % c
        r2 == d % b
    IN IF q1 # q2 THEN q1 < q2
       ELSE IF r2 = 0 THEN FALSE
       ELSE IF r1 = 0 THEN TRUE
       ELSE FracLess(b, r2, c, r1)

\* pixel / 255.0 < 0.85
IsForeground(level) == level * 100 < DARK_LEVEL * GREY_MAX

ForegroundCount(img) ==
    (IF IsForeground(img.dark) THEN img.nd ELSE 0)
    + (IF IsForeground(img.bg) THEN NumPixels - img.nd ELSE 0)

\* np.std(flat) < MIN_STD_DEV, in exact arithmetic: the variance of the two
\* levels is nd (N - nd) (dark - bg)^2 / (N^2 255^2)
StdDevBelowMin(img) ==
    LET a == img.nd * (NumPixels - img.nd)
        b == (img.dark - img.bg) * (img.dark - img.bg) * 100 * 100
        c == NumPixels * NumPixels
        d == MIN_STD_DEV * MIN_STD_DEV * GREY_MAX * GREY_MAX
    IN IF a = 0 \/ b = 0 THEN TRUE ELSE FracLess(a, c, d, b)

prefilter_rejects_no_max(img) ==
    \/ StdDevBelowMin(img)
    \/ ForegroundCount(img) * 100 < MIN_FOREGROUND_FRACTION * NumPixels

\* std_dev < MIN_STD_DEV or foreground_fraction < MIN_FOREGROUND_FRACTION
\* or foreground_fraction > MAX_FOREGROUND_FRACTION
prefilter_rejects(img) ==
    \/ StdDevBelowMin(img)
    \/ ForegroundCount(img) * 100 < MIN_FOREGROUND_FRACTION * NumPixels
    \/ ForegroundCount(img) * 100 > MAX_FOREGROUND_FRACTION * NumPixels

\* np.argmax: the first index of the largest value
np_argmax(v) ==
    CHOOSE i \in DOMAIN v :
        /\ \A j \in DOMAIN v : v[j] <= v[i]
        /\ \A j \in DOMAIN v : v[j] = v[i] => i <= j

\* dict.get(key, default)
dict_get(d, key, default) == IF key \in DOMAIN d THEN d[key] ELSE default

labels_get_empty_default(lbls, key) == dict_get(lbls, key, [k \in {} |-> ""])

\* labels.get(str(top_idx), None)
labels_get(lbls, key) == dict_get(lbls, key, None)

IsDict(v) == "json_scalar" \notin DOMAIN v

confidence_ok_strict(c) == c > CONFIDENCE_THRESHOLD

\* top_confidence >= CONFIDENCE_THRESHOLD
confidence_ok(c) == c >= CONFIDENCE_THRESHOLD

entry_is_empty_unchecked(u, l) == FALSE

\* not recognized_unicode and not recognized_latex
entry_is_empty(u, l) == u = "" /\ l = ""

Json(code, success, status, error) ==
    [json |-> TRUE, code |-> code, success |-> success, status |-> status,
     error |-> error, unicode |-> "", latex |-> "", symbol |-> "",
     confidence |-> -1]

ModelNotLoaded == Json(500, FALSE, "", "Model not loaded")
NoImageProvided == Json(400, FALSE, "", "No image provided")
Unrecognized == Json(200, TRUE, "unrecognized", "")
LabelMismatch == Json(500, FALSE, "data_error", "Label file mismatch")
EmptyLabel == Json(500, FALSE, "data_error", "Label found, but empty")
InternalError == Json(500, FALSE, "", "An internal server error occurred")

\* what Flask answers when a view lets an exception out: its own HTML page
FlaskErrorPage == [json |-> FALSE, code |-> 500, success |-> FALSE,
                   status |-> "", error |-> "", unicode |-> "", latex |-> "",
                   symbol |-> "", confidence |-> -1]

Recognized(u, l, c) ==
    [json |-> TRUE, code |-> 200, success |-> TRUE, status |-> "recognized",
     error |-> "", unicode |-> u, latex |-> l, symbol |-> u,
     confidence |-> c * 100]

on_exception_uncaught(site) ==
    IF site = "preprocess" THEN InternalError ELSE FlaskErrorPage

\* except Exception as e: the response of the handler's except clause
on_exception(site) == InternalError

validation_image_first(m, req) ==
    IF ~req.has_image THEN "no_image"
    ELSE IF m = None THEN "no_model"
    ELSE "ok"

\* the two checks that open predict, in their order
validation(m, req) ==
    IF m = None THEN "no_model"
    ELSE IF ~req.has_image THEN "no_image"
    ELSE "ok"

Outcome(resp, inv, exc) == [response |-> resp, invoked |-> inv, raised |-> exc]

\* lines 138-171: the verdict on a metadata entry that is a JSON object
verdict(symbol_info, top_confidence) ==
    LET recognized_unicode == dict_get(symbol_info, "unicode", "")
        recognized_latex == dict_get(symbol_info, "latex", "")
    IN IF confidence_ok(top_confidence)
       THEN IF entry_is_empty(recognized_unicode, recognized_latex)
            THEN EmptyLabel
            ELSE Recognized(recognized_unicode, recognized_latex, top_confidence)
       ELSE Unrecognized

\* lines 119-171: from model.predict on
classify(m, lbls, img) ==
    IF m.raises THEN Outcome(on_exception("inference"), TRUE, "inference")
    ELSE
    LET predictions == model_predict(m, img)
        top_idx == np_argmax(predictions)
        top_confidence == predictions[top_idx]
        symbol_info == labels_get(lbls, Str(top_idx))
    IN IF symbol_info = None THEN Outcome(LabelMismatch, TRUE, "none")
       ELSE IF ~IsDict(symbol_info)
       THEN Outcome(on_exception("lookup"), TRUE, "lookup")
       ELSE Outcome(verdict(symbol_info, top_confidence), TRUE, "none")

predict(m, lbls, req) ==
    LET v == validation(m, req)
    IN IF v = "no_model" THEN Outcome(ModelNotLoaded, FALSE, "none")
       ELSE IF v = "no_image" THEN Outcome(NoImageProvided, FALSE, "none")
       ELSE IF ~req.image.decodable
       THEN Outcome(on_exception("preprocess"), FALSE, "preprocess")
       ELSE IF prefilter_rejects(req.image)
       THEN Outcome(Unrecognized, FALSE, "none")
       ELSE classify(m, lbls, req.image)

health(m, lbls) ==
    [json |-> TRUE, code |-> 200, status |-> "healthy",
     model_loaded |-> m # None,
     labels_loaded |-> Cardinality(DOMAIN lbls) > 0,
     num_classes |-> Cardinality(DOMAIN lbls)]

info(m, lbls) ==
    IF m = None THEN [json |-> TRUE, code |-> 500, error |-> "Model not loaded"]
    ELSE [json |-> TRUE, code |-> 200, num_classes |-> Cardinality(DOMAIN lbls),
          dataset |-> "HASYv2"]

home == [json |-> FALSE, code |-> 200, page |-> "index.html"]

dispatch(m, lbls, req) ==
    CASE req.route = "/predict" -> predict(m, lbls, req)
      [] req.route = "/health" -> Outcome(health(m, lbls), FALSE, "none")
      [] req.route = "/info" -> Outcome(info(m, lbls), FALSE, "none")
      [] OTHER -> Outcome(home, FALSE, "none")

globals_after_reset_on_error(m, lbls, out) ==
    IF out.raised # "none" THEN <<m, EmptyMap>> ELSE <<m, lbls>>

\* no view function declares model or labels global: a request leaves both
globals_after(m, lbls, out) == <<m, lbls>>

(***************************************************************************)
(* app.py: start-up                                                        *)
(***************************************************************************)
labels_on_error_stale == [k \in {"0"} |-> EntryOf(1, 0)]

\* except Exception: labels = {}
labels_on_error == EmptyMap

model_on_error == None

LoadModel ==
    /\ pc = "load_model"
    /\ \/ \E m \in Artifacts : model' = m /\ startup_log' = startup_log
       \/ model' = model_on_error /\ startup_log' = startup_log \cup {"model"}
    /\ pc' = "load_labels"
    /\ UNCHANGED <<labels, request, response, invoked, raised, train_vars, run_vars>>

LoadLabels ==
    /\ pc = "load_labels"
    /\ \/ \E t \in LabelTables : labels' = t /\ startup_log' = startup_log
       \/ labels' = labels_on_error /\ startup_log' = startup_log \cup {"labels"}
    /\ pc' = "serving"
    /\ UNCHANGED <<model, request, response, invoked, raised, train_vars, run_vars>>

Handle(req) ==
    /\ pc = "serving"
    /\ LET out == dispatch(model, labels, req)
           g == globals_after(model, labels, out)
       IN /\ request' = req
          /\ response' = out.response
          /\ invoked' = out.invoked
          /\ raised' = out.raised
          /\ model' = g[1]
          /\ labels' = g[2]
    /\ UNCHANGED <<pc, startup_log, train_vars, run_vars>>

Serve == \E req \in Requests : Handle(req)

TrainIdle ==
    /\ tpc = "off"
    /\ csv = <<>>
    /\ images = <<>>
    /\ raw_labels = <<>>
    /\ label_map = EmptyMap
    /\ remapped = <<>>
    /\ forward = EmptyMap
    /\ reverse_mapping = EmptyMap
    /\ num_classes = -1
    /\ saved_reverse = EmptyMap
    /\ trainer = "none"
    /\ epoch = 0
    /\ wait = 0
    /\ fit_done = FALSE
    /\ files = {}
    /\ idx = 0
    /\ last_exists = FALSE
    /\ progress = <<>>

Init ==
    /\ pc = "load_model"
    /\ model = None
    /\ labels = EmptyMap
    /\ startup_log = {}
    /\ request = NoRequest
    /\ response = NoResponse
    /\ invoked = FALSE
    /\ raised = "none"
    /\ TrainIdle

Next ==
    \/ LoadModel
    \/ LoadLabels
    \/ Serve

Spec == Init /\ [][Next]_vars


(***************************************************************************)
(* What the claims read of the request served last                         *)
(***************************************************************************)
PredictServed == pc = "serving" /\ request.route = "/predict"

\* the model ran and returned an output vector
ModelAnswered == PredictServed /\ invoked /\ ~model.raises

TopIdx == np_argmax(model_predict(model, request.image))

TopConfidence == model_predict(model, request.image)[TopIdx]

HasEntry == Str(TopIdx) \in DOMAIN labels

TopEntry == labels[Str(TopIdx)]

EntryUnicode == dict_get(TopEntry, "unicode", "")

EntryLatex == dict_get(TopEntry, "latex", "")

(***************************************************************************)
(* C2: with a loaded model and a decodable image, the model is not invoked *)
(* and the response is `unrecognized` (success true) exactly when the      *)
(* standard deviation is below 0.05 or the foreground fraction is below    *)
(* 0.02 or above 0.60; a fraction equal to 0.02 or 0.60 is not rejected    *)
(* (of 1024 pixels no count gives either: 21 and 614 pixels, the nearest   *)
(* counts inside, are not rejected); an all-white upload is rejected.      *)
(***************************************************************************)
C2_PrefilterShortCircuit ==
    (PredictServed /\ model # None /\ request.has_image
     /\ request.image.decodable) =>
        LET img == request.image
            fg == ForegroundCount(img)
            low_std == StdDevBelowMin(img)
            short == ~invoked /\ response.status = "unrecognized"
                     /\ response.success /\ response.code = 200
        IN /\ short <=> (low_std \/ fg * 100 < 2 * 1024 \/ fg * 100 > 60 * 1024)
           /\ (~low_std /\ (fg * 100 = 2 * 1024 \/ fg * 100 = 60 * 1024))
                => invoked
           /\ (~low_std /\ fg \in {21, 614}) => invoked
           /\ (img.nd = 0 /\ img.bg = 255) => short

\* 614 of 1024 pixels black on white: the model is run
C2_Witness ==
    /\ PredictServed
    /\ request.has_image
    /\ request.image = Image(614, 0, 255)
    /\ invoked

(***************************************************************************)
(* C3: when the model answered and the predicted class has a metadata      *)
(* entry with a non-empty display string, the verdict is `recognized`      *)
(* (success true, the entry's unicode and latex, the confidence times 100) *)
(* if and only if the top confidence is >= 0.85; below 0.85 it is          *)
(* `unrecognized` with success true.                                       *)
(***************************************************************************)
C3_ThresholdInclusive ==
    (ModelAnswered /\ HasEntry /\ IsDict(TopEntry)
     /\ (EntryUnicode # "" \/ EntryLatex # "")) =>
        LET recognized ==
                /\ response.status = "recognized"
                /\ response.success
                /\ response.code = 200
                /\ response.unicode = EntryUnicode
                /\ response.latex = EntryLatex
                /\ response.confidence = TopConfidence * 100
        IN /\ recognized <=> TopConfidence >= 85
           /\ TopConfidence < 85 =>
                response.status = "unrecognized" /\ response.success

\* a confidence of exactly 0.85 is recognized
C3_Witness ==
    /\ ModelAnswered
    /\ HasEntry
    /\ TopConfidence = 85
    /\ response.status = "recognized"
    /\ response.confidence = 8500

(***************************************************************************)
(* C4: when the model answered and str(top_idx) is no key of the metadata  *)
(* table, the response is `data_error` with success false and HTTP 500,    *)
(* whatever the confidence, and the service goes on serving.               *)
(***************************************************************************)
C4_MissingLabelIsDataError ==
    (ModelAnswered /\ ~HasEntry) =>
        /\ response.json
        /\ response.status = "data_error"
        /\ ~response.success
        /\ response.code = 500
        /\ raised = "none"

\* a class without an entry, predicted below the threshold
C4_Witness ==
    /\ ModelAnswered
    /\ ~HasEntry
    /\ labels # EmptyMap
    /\ TopConfidence < 85
    /\ response.status = "data_error"

(***************************************************************************)
(* C5: with no model loaded, every /predict request returns HTTP 500 with  *)
(* success false, with or without an image and whatever the image is.      *)
(***************************************************************************)
C5_NoModelAlways500 ==
    (PredictServed /\ model = None) =>
        /\ response.json
        /\ response.code = 500
        /\ ~response.success
        /\ ~invoked
        /\ raised = "none"

\* no model and no image: the model check comes first
C5_Witness ==
    /\ PredictServed
    /\ model = None
    /\ ~request.has_image
    /\ response.code = 500

(***************************************************************************)
(* C6, as claimed: if the model or the metadata table failed to load,      *)
(* every /predict request reports an error (success false).                *)
(***************************************************************************)
C6_EveryRequestUnavailable ==
    (PredictServed /\ startup_log # {}) => ~response.success

(***************************************************************************)
(* C6, amended: a failed load leaves its global None / {} and the service  *)
(* starts. If the model failed, every /predict request returns HTTP 500    *)
(* with success false. If the table failed, every /predict request in      *)
(* which model.predict runs returns HTTP 500 with success false; a request *)
(* without an image gets 400, an upload that cannot be decoded the         *)
(* internal error, and an upload the pre-filter rejects `unrecognized`     *)
(* with success true. Every request gets a JSON response.                  *)
(***************************************************************************)
C6_DegradedService ==
    /\ (pc # "load_model" /\ "model" \in startup_log) => model = None
    /\ (pc = "serving" /\ "labels" \in startup_log) => labels = EmptyMap
    /\ (PredictServed /\ "model" \in startup_log) =>
            response = ModelNotLoaded
    /\ (PredictServed /\ startup_log = {"labels"}) =>
            /\ response.json
            /\ invoked => (response.code = 500 /\ ~response.success)
            /\ (~invoked /\ ~request.has_image) => response.code = 400
            /\ (~invoked /\ request.has_image /\ ~request.image.decodable) =>
                    response = InternalError
            /\ (~invoked /\ request.has_image /\ request.image.decodable) =>
                    (response.status = "unrecognized" /\ response.success)

\* only the table failed to load, and the model ran
C6_Witness ==
    /\ PredictServed
    /\ startup_log = {"labels"}
    /\ invoked
    /\ response = LabelMismatch

(***************************************************************************)
(* C7: once the service is serving, no request changes model or labels,    *)
(* and serving the same request again gives the same response.             *)
(***************************************************************************)
C7_GlobalsReadOnly ==
    [][pc = "serving" =>
        /\ model' = model
        /\ labels' = labels
        /\ (request' = request => response' = response)]_vars

\* a request that raised has been served and the table is still loaded
C7_Witness ==
    /\ PredictServed
    /\ raised = "lookup"
    /\ labels # EmptyMap
    /\ model # None

(***************************************************************************)
(* C8: every /predict request ends in one JSON response; an exception in   *)
(* preprocessing, inference or the metadata lookup becomes the internal    *)
(* error response (success false, HTTP 500), and the service goes on       *)
(* serving.                                                                *)
(***************************************************************************)
C8_ExceptionsBecomeJson ==
    (pc = "serving" /\ request.route = "/predict") =>
        /\ response.json
        /\ response.code \in {200, 400, 500}
        /\ raised # "none" =>
                /\ response = InternalError
                /\ ~response.success
                /\ response.code = 500

\* model.predict raised
C8_Witness ==
    /\ PredictServed
    /\ raised = "inference"
    /\ response.code = 500

(***************************************************************************)
(* C10, as claimed: when the model answered and the entry of the predicted *)
(* class has both strings empty, the response is `data_error` with success *)
(* false, whatever the confidence.                                         *)
(***************************************************************************)
C10_EmptyEntryAlwaysDataError ==
    (ModelAnswered /\ HasEntry /\ IsDict(TopEntry)
     /\ EntryUnicode = "" /\ EntryLatex = "") =>
        response.status = "data_error" /\ ~response.success

(***************************************************************************)
(* C10, amended: with both strings empty the response is `data_error`      *)
(* (success false, HTTP 500) when the confidence is >= 0.85; below 0.85 it *)
(* is `unrecognized` with success true.                                    *)
(***************************************************************************)
C10_EmptyEntryAboveThreshold ==
    (ModelAnswered /\ HasEntry /\ IsDict(TopEntry)
     /\ EntryUnicode = "" /\ EntryLatex = "") =>
        IF TopConfidence >= 85
        THEN response.status = "data_error" /\ ~response.success
             /\ response.code = 500
        ELSE response.status = "unrecognized" /\ response.success

\* an empty entry predicted with confidence at the threshold
C10_Witness ==
    /\ ModelAnswered
    /\ HasEntry
    /\ IsDict(TopEntry)
    /\ EntryUnicode = ""
    /\ EntryLatex = ""
    /\ TopConfidence = 85
    /\ response.status = "data_error"

(***************************************************************************)
(* C12: whatever the label table and whichever image files are missing,    *)
(* the number of classes of the trained model is the number of distinct    *)
(* symbol ids among the rows whose image exists; an id that occurs only in *)
(* skipped rows is in neither the forward nor the reverse mapping; the     *)
(* loaded images and labels have the same length and keep the table's row  *)
(* order.                                                                  *)
(***************************************************************************)
ExistingRows == {k \in 1..Len(csv) : csv[k].exists}

ExistingIds == {csv[k].symbol_id : k \in ExistingRows}

SkippedOnlyIds == {csv[k].symbol_id : k \in 1..Len(csv)} \ ExistingIds

C12_ClassesAreLoadedIds ==
    /\ num_classes # -1 => num_classes = Cardinality(ExistingIds)
    /\ Remapped =>
        \A s \in SkippedOnlyIds :
            s \notin DOMAIN forward /\ s \notin MapRange(reverse_mapping)
    /\ tpc # "load" =>
        /\ Len(images) = Len(raw_labels)
        /\ Len(images) = Cardinality(ExistingRows)
        /\ \A k \in 1..Len(images) :
            /\ images[k] \in ExistingRows
            /\ raw_labels[k] = csv[images[k]].symbol_id
        /\ \A j, k \in 1..Len(images) : j < k => images[j] < images[k]

\* a model trained on a table with a skipped row whose id no loaded row has,
\* the skipped row standing before loaded ones
C12_Witness ==
    /\ trainer = "evaluated"
    /\ num_classes = 1
    /\ SkippedOnlyIds # {}
    /\ \E k \in 1..Len(csv) : ~csv[k].exists /\ k < Len(csv) /\ csv[k + 1].exists

(***************************************************************************)
(* C13: no persisted artifact (labels.json, the model files,               *)
(* reverse_mapping.json) is written before the trainer has reached         *)
(* evaluated, so an aborted run leaves every persisted artifact unchanged. *)
(***************************************************************************)
C13_NothingWrittenBeforeEvaluated ==
    files # {} => trainer = "evaluated"

(***************************************************************************)
(* C13, amended: the files of save_all (the three model files and          *)
(* reverse_mapping.json) are written only after the trainer has reached    *)
(* evaluated. labels.json is written before remapping and training, and    *)
(* the checkpoint best_model.keras during fitting: a run that aborts at    *)
(* the split has written labels.json and nothing else, and once fit has    *)
(* returned the checkpoint is written too.                                 *)
(***************************************************************************)
C13_SaveAllAfterEvaluated ==
    /\ files \cap SaveAllFiles # {} => trainer = "evaluated" /\ tpc = "done"
    /\ tpc \notin {"load", "labels"} => "labels.json" \in files
    /\ checkpoint_path \in files => trainer \in {"fitting", "evaluated"}
    /\ (fit_done \/ epoch > 0) => checkpoint_path \in files
    /\ tpc = "aborted" => files = {"labels.json"}
    /\ tpc = "done" => files = SaveAllFiles \cup {"labels.json", checkpoint_path}

\* a run that aborted at the split, labels.json already written
C13_Witness ==
    /\ tpc = "aborted"
    /\ trainer = "none"
    /\ "labels.json" \in files

(***************************************************************************)
(* C11: the trainer goes through split, compiled, fitting, evaluated in    *)
(* that order, no step back and none skipped; fitting ends after at most   *)
(* 50 epochs and no later than the 10th epoch in a row without a better    *)
(* validation loss; evaluated is then reached, and is never left.          *)
(***************************************************************************)
TrainerSteps == {<<"none", "split">>, <<"split", "compiled">>,
                 <<"compiled", "fitting">>, <<"fitting", "evaluated">>}

TrainerInOrder == trainer' # trainer => <<trainer, trainer'>> \in TrainerSteps

FitWithinBudget ==
    /\ epoch \in 0..EPOCHS
    /\ wait \in 0..PATIENCE
    /\ wait <= epoch
    /\ (trainer = "fitting" /\ (epoch = EPOCHS \/ wait = PATIENCE)) => fit_done
    /\ fit_done => (epoch = EPOCHS \/ wait = PATIENCE)
    /\ trainer = "evaluated" => fit_done

C11_TrainerLifecycle ==
    /\ [][TrainerInOrder]_vars
    /\ []FitWithinBudget
    /\ (trainer = "fitting") ~> (trainer = "evaluated")
    /\ [](trainer = "evaluated" => [](trainer = "evaluated"))

\* a fit stopped early, at its 10th epoch in a row without a better loss
C11_Witness ==
    /\ trainer = "evaluated"
    /\ epoch = 25
    /\ wait = PATIENCE

(***************************************************************************)
(* C14: while the loader goes through the label table, a progress report   *)
(* is printed each time the count of rows processed reaches a multiple of  *)
(* 10,000, whether that row was loaded or skipped, and at no other point.  *)
(***************************************************************************)
C14_ReportAtEveryMultiple ==
    progress = [k \in 1..(idx \div PROGRESS_EVERY) |-> k * PROGRESS_EVERY]

====
